---- MODULE Spec2Model ----
(***************************************************************************)
(* Plaintext transport over Zephyr sockets (plaintext_zephyr.c).           *)
(*                                                                         *)
(* The state is the caller-owned parameter block (the stored socket        *)
(* descriptor) and a record of the most recent call:                       *)
(* its arguments, every collaborator call it made (with the arguments it   *)
(* passed), what the collaborators answered, and what the call returned.   *)
(* The collaborators (Sockets_Connect, Sockets_Disconnect, zsock_select,   *)
(* zsock_recv, zsock_send) are the environment: their answers are chosen   *)
(* nondeterministically inside each action.                                *)
(*                                                                         *)
(* Plaintext_Recv and Plaintext_Send hold no lock.  They read the stored   *)
(* descriptor three times (for the set, for nfds, for the read / write)    *)
(* and block in zsock_select and in zsock_recv / zsock_send.  Each is      *)
(* therefore four steps, one per read and one per answer; between them,    *)
(* until the call returns, another thread may run Plaintext_Connect or     *)
(* Plaintext_Disconnect on the same context.                               *)
(*                                                                         *)
(* The (int32_t) conversion of the zsock_recv / zsock_send result is the   *)
(* identity on every value of the model (all are far inside the int32      *)
(* range, as they are where ssize_t is 32 bits wide).                      *)
(***************************************************************************)
EXTENDS Integers, Sequences, FiniteSets, TLC

VARIABLES
    socketDescriptor,   \* pNetworkContext->pParams->socketDescriptor
    connected,          \* the collaborator holds an open socket for the handle
    connFd,             \* the descriptor the latest Sockets_Connect stored
    call,               \* the most recent call of the transport interface
    bcall,              \* the latest Connect / Disconnect another thread made
                        \* while the call above was running
    prev,               \* summary of the call before it
    assertsOn,          \* the build keeps assert() (NDEBUG is not defined)
    rth,                \* locals of a Plaintext_Recv running in one thread
    sth                 \* locals of a Plaintext_Send running in another

vars == << socketDescriptor, connected, connFd, call, bcall, prev, assertsOn,
          rth, sth >>

----------------------------------------------------------------------------
(* Bounds of the model *)

\* largest socket descriptor the collaborator hands out
MaxFd == 1
\* largest bytesToRecv / bytesToSend a caller passes
MaxBytes == 2
\* negative results of zsock_recv / zsock_send range over -MaxErr .. -1
MaxErr == 2
\* errno values set by a failing collaborator range over 1 .. MaxErrno
MaxErrno == 1

----------------------------------------------------------------------------
(* Program constants *)

ONE_SEC_TO_MS == 1000
ONE_MS_TO_US == 1000
\* the literal of recvTimeout / sendTimeout, in milliseconds
PollBudgetMs == 500

----------------------------------------------------------------------------
(* Value sets of the inputs *)

FdValues == 0 .. MaxFd
\* a descriptor field the caller has not filled yet holds -1 or a stale value
HandleValues == {-1} \cup FdValues
\* pNetworkContext: NULL, non-NULL with pParams == NULL, or fully set up
ContextKinds == {"null", "nullParams", "valid"}
ServerInfos == {"hostA", "hostB"}
TimeoutValues == {0, 500}
\* the connect requests a caller makes: two servers, the two timeouts unequal
ConnectRequests ==
    { r \in [ server : ServerInfos, sendMs : TimeoutValues, recvMs : TimeoutValues ] :
        /\ r.sendMs # r.recvMs
        /\ (r.server = "hostA") <=> (r.sendMs = 0) }
ErrnoValues == 1 .. MaxErrno
\* readiness poll: error, timeout, the one descriptor ready
SelectResults == {-1, 0, 1}
\* read / write of at most n bytes: error, zero, or 1..n bytes transferred
IoResults(n) == (-MaxErr .. -1) \cup (0 .. n)
\* statuses Sockets_Connect can produce
ConnectStatuses == {"SOCKETS_SUCCESS", "SOCKETS_INVALID_PARAMETER",
                    "SOCKETS_DNS_FAILURE", "SOCKETS_CONNECT_FAILURE"}
\* statuses Sockets_Disconnect can produce
DisconnectStatuses == {"SOCKETS_SUCCESS", "SOCKETS_INVALID_PARAMETER"}

----------------------------------------------------------------------------
(* The record of one call *)

NoCall ==
    [ op |-> "none",            \* Connect, Disconnect, Recv, Send
      pc |-> "done",            \* inside Recv/Send: "set" after ZSOCK_FD_SET,
                                \* "poll" in zsock_select, "io" in zsock_recv/send
      ctx |-> "valid",          \* kind of pNetworkContext passed
      bufOk |-> TRUE,           \* pBuffer != NULL
      nbytes |-> 0,             \* bytesToRecv / bytesToSend
      argServer |-> "hostA",    \* pServerInfo passed by the caller
      argSendMs |-> 0,          \* sendTimeoutMs passed by the caller
      argRecvMs |-> 0,          \* recvTimeoutMs passed by the caller
      aborted |-> FALSE,        \* an assert() failed
      status |-> "none",        \* SocketStatus_t returned (Connect/Disconnect)
      ret |-> 0,                \* int32_t returned (Recv/Send)
      nConnect |-> 0,           \* calls of Sockets_Connect
      fwdServer |-> "hostA",    \* arguments handed to Sockets_Connect
      fwdSendMs |-> 0,
      fwdRecvMs |-> 0,
      fwdHandle |-> FALSE,      \* &pPlaintextParams->socketDescriptor passed
      collabStatus |-> "none",  \* what Sockets_Connect/Disconnect answered
      nClose |-> 0,             \* calls of Sockets_Disconnect
      closeFd |-> -1,           \* descriptor handed to Sockets_Disconnect
      nSelect |-> 0,            \* calls of zsock_select
      selSet |-> "none",        \* which fd_set carried the descriptor
      selFd |-> -1,             \* the descriptor in that set
      selNfds |-> 0,            \* nfds argument
      tvSec |-> 0,              \* timeout handed to zsock_select
      tvUsec |-> 0,
      selectStatus |-> 0,       \* what zsock_select answered
      nRecv |-> 0,              \* calls of zsock_recv
      nSend |-> 0,              \* calls of zsock_send
      ioFd |-> -1,              \* descriptor handed to zsock_recv/zsock_send
      ioLen |-> 0,              \* length handed to zsock_recv/zsock_send
      ioResult |-> 0,           \* what zsock_recv/zsock_send answered
      nLog |-> 0,               \* LogError entries issued
      logErrno |-> 0 ]          \* errorNumber reported by logTransportError

\* what is remembered of a call once the next one has been made
Summary(c) ==
    [ \* a Recv / Send whose poll timed out
      outcome |-> IF c.nSelect = 1 /\ c.selectStatus = 0 THEN "timeout" ELSE "other",
      \* a Connect that handed recvTimeoutMs = 0 to Sockets_Connect
      zeroRecvMs |-> c.nConnect = 1 /\ c.fwdRecvMs = 0 ]

\* a thread that is not inside Plaintext_Recv / Plaintext_Send
IdleThread ==
    [ pc |-> "idle",        \* idle, set, poll, io, done
      nbytes |-> 0,         \* bytesToRecv / bytesToSend
      pollFd |-> -1,        \* descriptor put into the thread's own fd_set
      nfds |-> 0,           \* nfds handed to zsock_select
      ioFd |-> -1,          \* descriptor handed to zsock_recv / zsock_send
      tvUsec |-> 0,         \* the thread's own timeout
      selectStatus |-> -1,  \* local selectStatus
      nIo |-> 0,            \* zsock_recv / zsock_send calls made
      io |-> 0,             \* what zsock_recv / zsock_send answered
      ret |-> 0,            \* value returned
      nLog |-> 0,           \* logTransportError calls made
      overlap |-> FALSE ]   \* the other thread was inside its call at the poll

Init ==
    /\ assertsOn = TRUE
    /\ bcall = NoCall
    /\ rth = IdleThread
    /\ sth = IdleThread
    /\ socketDescriptor \in HandleValues
    /\ connected = FALSE
    /\ connFd = socketDescriptor
    /\ call = NoCall
    /\ prev = Summary(NoCall)

----------------------------------------------------------------------------
(* Plaintext_Connect *)

\* the parameter check of Plaintext_Connect
ConnectParamsInvalid(ctx) == ctx = "null" \/ ctx = "nullParams"

\* variant: the two timeouts handed over in the wrong order
ConnectForward_Swapped(pServerInfo, sendTimeoutMs, recvTimeoutMs) ==
    [ server |-> pServerInfo, sendMs |-> recvTimeoutMs, recvMs |-> sendTimeoutMs ]

\* the arguments Plaintext_Connect hands to Sockets_Connect
ConnectForward(pServerInfo, sendTimeoutMs, recvTimeoutMs) ==
    [ server |-> pServerInfo, sendMs |-> sendTimeoutMs, recvMs |-> recvTimeoutMs ]

\* the status Plaintext_Connect returns, given what Sockets_Connect answered
ConnectReturn(ctx, collabStatus) ==
    IF ConnectParamsInvalid(ctx) THEN "SOCKETS_INVALID_PARAMETER" ELSE collabStatus

\* variant: the parameter check does not stop the delegation
ConnectCalls_Unchecked(ctx) == 1

\* number of Sockets_Connect calls made by one Plaintext_Connect
ConnectCalls(ctx) == IF ConnectParamsInvalid(ctx) THEN 0 ELSE 1

\* number of LogError entries issued by one Plaintext_Connect
ConnectLogs(ctx) == IF ConnectParamsInvalid(ctx) THEN 1 ELSE 0

\* a Plaintext_Recv / Plaintext_Send has been entered and has not returned:
\* it holds no lock, so another thread can run a call on the same context
Running == call.pc # "done"

\* where the record of a Connect / Disconnect goes: it is the caller's next
\* call, or the call of another thread while the caller's call is running
Recorded(rec) ==
    IF Running
    THEN bcall' = rec /\ UNCHANGED << call, prev >>
    ELSE call' = rec /\ prev' = Summary(call) /\ UNCHANGED bcall

Plaintext_Connect ==
    /\ ~call.aborted
    /\ \E ctx \in ContextKinds, req \in ConnectRequests,
          collabStatus \in ConnectStatuses, newFd \in FdValues,
          wrote \in BOOLEAN :
        LET pServerInfo == req.server
            sendTimeoutMs == req.sendMs
            recvTimeoutMs == req.recvMs
            n == ConnectCalls(ctx)
            fwd == ConnectForward(pServerInfo, sendTimeoutMs, recvTimeoutMs)
            ok == n > 0 /\ collabStatus = "SOCKETS_SUCCESS"
        IN  \* inputs that are not consumed are fixed
            /\ n = 0 => collabStatus = "SOCKETS_SUCCESS"
            /\ (n = 0 \/ ok) => wrote
            /\ (n = 0 \/ ~wrote) => newFd = 0
            \* one choice of arguments for the call of the other thread
            /\ Running => pServerInfo = "hostB"
            /\ Recorded([ NoCall EXCEPT
                  !.op = "Connect", !.ctx = ctx,
                  !.argServer = pServerInfo,
                  !.argSendMs = sendTimeoutMs, !.argRecvMs = recvTimeoutMs,
                  !.status = ConnectReturn(ctx, collabStatus),
                  !.nConnect = n,
                  !.fwdServer = IF n > 0 THEN fwd.server ELSE @,
                  !.fwdSendMs = IF n > 0 THEN fwd.sendMs ELSE @,
                  !.fwdRecvMs = IF n > 0 THEN fwd.recvMs ELSE @,
                  !.fwdHandle = n > 0,
                  !.collabStatus = IF n > 0 THEN collabStatus ELSE @,
                  !.nLog = ConnectLogs(ctx) ])
            \* Sockets_Connect writes the handle through the reference: the new
            \* descriptor on success; on failure the descriptor of its failed
            \* attempt (already closed again), or nothing.
            /\ socketDescriptor' =
                  IF n > 0 /\ (ok \/ wrote) THEN newFd ELSE socketDescriptor
            /\ connFd' = IF n > 0 THEN socketDescriptor' ELSE connFd
            /\ connected' =
                  IF ok THEN TRUE
                  ELSE IF n > 0 /\ wrote THEN FALSE ELSE connected
    /\ UNCHANGED << assertsOn, rth, sth >>

----------------------------------------------------------------------------
(* Plaintext_Disconnect *)

\* the parameter check of Plaintext_Disconnect
DisconnectParamsInvalid(ctx) == ctx = "null" \/ ctx = "nullParams"

\* the descriptor Plaintext_Disconnect hands to Sockets_Disconnect
DisconnectHandle(fd) == fd

\* variant: the answer of Sockets_Disconnect is dropped
DisconnectReturn_Dropped(ctx, collabStatus) ==
    IF DisconnectParamsInvalid(ctx) THEN "SOCKETS_INVALID_PARAMETER"
    ELSE "SOCKETS_SUCCESS"

\* the status Plaintext_Disconnect returns, given what Sockets_Disconnect answered
DisconnectReturn(ctx, collabStatus) ==
    IF DisconnectParamsInvalid(ctx) THEN "SOCKETS_INVALID_PARAMETER" ELSE collabStatus

\* number of Sockets_Disconnect calls made by one Plaintext_Disconnect
DisconnectCalls(ctx) == IF DisconnectParamsInvalid(ctx) THEN 0 ELSE 1

\* number of LogError entries issued by one Plaintext_Disconnect
DisconnectLogs(ctx) == IF DisconnectParamsInvalid(ctx) THEN 1 ELSE 0

\* variant: the handle is invalidated once the socket is closed
DisconnectStoredFd_Cleared(fd) == -1

\* the descriptor field after Plaintext_Disconnect (the context is const)
DisconnectStoredFd(fd) == fd

Plaintext_Disconnect ==
    /\ ~call.aborted
    /\ \E ctx \in ContextKinds, collabStatus \in DisconnectStatuses :
        LET n == DisconnectCalls(ctx)
            ok == n > 0 /\ collabStatus = "SOCKETS_SUCCESS"
        IN  \* inputs that are not consumed are fixed
            /\ n = 0 => collabStatus = "SOCKETS_SUCCESS"
            /\ Recorded([ NoCall EXCEPT
                  !.op = "Disconnect", !.ctx = ctx,
                  !.status = DisconnectReturn(ctx, collabStatus),
                  !.nClose = n,
                  !.closeFd = IF n > 0 THEN DisconnectHandle(socketDescriptor) ELSE @,
                  !.collabStatus = IF n > 0 THEN collabStatus ELSE @,
                  !.nLog = DisconnectLogs(ctx) ])
            /\ socketDescriptor' =
                  IF n > 0 THEN DisconnectStoredFd(socketDescriptor)
                  ELSE socketDescriptor
            /\ connected' = IF ok THEN FALSE ELSE connected
    /\ UNCHANGED << connFd, assertsOn, rth, sth >>

----------------------------------------------------------------------------
(* Plaintext_Recv *)

\* variant: the assert on the byte count is missing
RecvPreconditions_NoCount(ctx, bufOk, bytesToRecv) ==
    ctx = "valid" /\ bufOk

\* the three assert()s at the head of Plaintext_Recv
RecvPreconditions(ctx, bufOk, bytesToRecv) ==
    ctx = "valid" /\ bufOk /\ bytesToRecv > 0

\* variant: the poll watches descriptor 0 instead of the stored one
RecvSelectArgs_Zero(fd) == [ fd |-> 0, nfds |-> 1 ]

\* the descriptor put into readfds and the nfds argument of zsock_select
RecvSelectArgs(fd) == [ fd |-> fd, nfds |-> fd + 1 ]

\* the descriptor handed to zsock_recv
RecvIoFd(fd) == fd

\* variant: the budget is taken from the recvTimeoutMs of the connect
RecvTimeout_FromConnect ==
    [ tv_sec |-> call.argRecvMs \div ONE_SEC_TO_MS,
      tv_usec |-> ONE_MS_TO_US * (call.argRecvMs % ONE_SEC_TO_MS) ]

\* recvTimeout as handed to zsock_select
RecvTimeout ==
    [ tv_sec |-> PollBudgetMs \div ONE_SEC_TO_MS,
      tv_usec |-> ONE_MS_TO_US * (PollBudgetMs % ONE_SEC_TO_MS) ]

\* variant: the read is skipped only on a timeout
RecvReads_OnError(selectStatus) == IF selectStatus # 0 THEN 1 ELSE 0

\* number of zsock_recv calls, given the answer of zsock_select
RecvReads(selectStatus) == IF selectStatus > 0 THEN 1 ELSE 0

\* variant: a timeout is treated like a poll error
RecvAfterSelect_TimeoutFails(selectStatus, recvResult) ==
    IF selectStatus > 0 THEN recvResult
    ELSE -1

\* bytesReceived after the three-way branch on selectStatus
RecvAfterSelect(selectStatus, recvResult) ==
    IF selectStatus > 0 THEN recvResult
    ELSE IF selectStatus < 0 THEN -1
    ELSE 0

\* variant: the peer-closed test compares with >= 0
RecvPeerClosed_Ge(selectStatus, bytesReceived) ==
    (selectStatus > 0) /\ (bytesReceived >= 0)

\* the peer-closed test
RecvPeerClosed(selectStatus, bytesReceived) ==
    (selectStatus > 0) /\ (bytesReceived = 0)

\* variant: a timeout, once seen, is reported again by the next call
RecvReturn_Sticky(selectStatus, bytesReceived) ==
    IF prev.outcome = "timeout" THEN 0
    ELSE IF RecvPeerClosed(selectStatus, bytesReceived) THEN -1
    ELSE bytesReceived

\* variant: every failure is reported as -1
RecvReturn_Flattened(selectStatus, bytesReceived) ==
    IF bytesReceived <= 0 /\ selectStatus # 0 THEN -1 ELSE bytesReceived

\* the value Plaintext_Recv returns
RecvReturn(selectStatus, bytesReceived) ==
    IF RecvPeerClosed(selectStatus, bytesReceived) THEN -1 ELSE bytesReceived

\* variant: the log is written after the peer-closed escalation, not instead
RecvLogs_AfterEscalation(selectStatus, bytesReceived) ==
    IF RecvReturn(selectStatus, bytesReceived) < 0 THEN 1 ELSE 0

\* number of logTransportError calls made by one Plaintext_Recv
RecvLogs(selectStatus, bytesReceived) ==
    IF RecvPeerClosed(selectStatus, bytesReceived) THEN 0
    ELSE IF bytesReceived < 0 THEN 1
    ELSE 0

\* the call goes on past its assert()s: they hold, or the build dropped them
\* and dereferencing the context does not trap
RecvProceeds(ctx, bufOk, n) ==
    IF assertsOn THEN RecvPreconditions(ctx, bufOk, n) ELSE ctx = "valid"

\* entry of Plaintext_Recv: the assert()s, the timeout, and the read of the
\* descriptor for ZSOCK_FD_SET
Plaintext_Recv_Set ==
    /\ ~call.aborted
    /\ ~Running
    /\ \E ctx \in ContextKinds, bufOk \in BOOLEAN, bytesToRecv \in 0 .. MaxBytes :
        \* arguments behind the first failing assert are not looked at: fixed
        /\ ctx # "valid" => (bufOk /\ bytesToRecv = MaxBytes)
        /\ (assertsOn /\ ~bufOk) => bytesToRecv = MaxBytes
        /\ IF ~RecvProceeds(ctx, bufOk, bytesToRecv)
           THEN \* abort() of a failed assert, or the trap of a NULL dereference
                call' = [ NoCall EXCEPT
                      !.op = "Recv", !.ctx = ctx, !.bufOk = bufOk,
                      !.nbytes = bytesToRecv, !.aborted = TRUE ]
           ELSE call' = [ NoCall EXCEPT
                      !.op = "Recv", !.pc = "set", !.ctx = ctx, !.bufOk = bufOk,
                      !.nbytes = bytesToRecv,
                      !.selSet = "read",
                      !.selFd = RecvSelectArgs(socketDescriptor).fd,
                      !.tvSec = RecvTimeout.tv_sec,
                      !.tvUsec = RecvTimeout.tv_usec ]
    /\ prev' = Summary(call)
    /\ UNCHANGED << socketDescriptor, connected, connFd, bcall, assertsOn,
                    rth, sth >>

\* the read of the descriptor for nfds and the call of zsock_select, in
\* which the thread blocks
Plaintext_Recv_Poll ==
    /\ call.op = "Recv" /\ call.pc = "set"
    /\ call' = [ call EXCEPT
          !.pc = "poll", !.nSelect = 1,
          !.selNfds = RecvSelectArgs(socketDescriptor).nfds ]
    /\ UNCHANGED << socketDescriptor, connected, connFd, bcall, prev, assertsOn,
                    rth, sth >>

\* zsock_select answers: the read of the descriptor for zsock_recv and the
\* call of zsock_recv, in which the thread blocks; or, with nothing ready,
\* the rest of Plaintext_Recv through its return
Plaintext_Recv_Select ==
    /\ call.op = "Recv" /\ call.pc = "poll"
    /\ \E selectStatus \in SelectResults,
          newErrno \in ErrnoValues :  \* errno left by a failing zsock_select
        LET reads == RecvReads(selectStatus)
            bytesReceived == RecvAfterSelect(selectStatus, 0)
            logs == RecvLogs(selectStatus, bytesReceived)
        IN  \* inputs that are not consumed are fixed
            /\ (reads > 0 \/ logs = 0) => newErrno = 1
            /\ IF reads > 0
               THEN /\ call' = [ call EXCEPT
                          !.pc = "io",
                          !.selectStatus = selectStatus,
                          !.nRecv = reads,
                          !.ioFd = RecvIoFd(socketDescriptor),
                          !.ioLen = call.nbytes ]
                    /\ UNCHANGED bcall
               ELSE /\ call' = [ call EXCEPT
                          !.pc = "done",
                          !.selectStatus = selectStatus,
                          !.ret = RecvReturn(selectStatus, bytesReceived),
                          !.nLog = logs,
                          !.logErrno = IF logs > 0 THEN newErrno ELSE @ ]
                    /\ bcall' = NoCall
    /\ UNCHANGED << socketDescriptor, connected, connFd, prev, assertsOn,
                    rth, sth >>

\* zsock_recv answers; the classification, the log and the return
Plaintext_Recv_Finish ==
    /\ call.op = "Recv" /\ call.pc = "io"
    /\ \E recvResult \in IoResults(MaxBytes),
          newErrno \in ErrnoValues :  \* errno left by a failing zsock_recv
        LET bytesReceived == RecvAfterSelect(call.selectStatus, recvResult)
            logs == RecvLogs(call.selectStatus, bytesReceived)
        IN  \* zsock_recv transfers at most bytesToRecv bytes
            /\ recvResult <= call.nbytes
            \* inputs that are not consumed are fixed
            /\ logs = 0 => newErrno = 1
            /\ call' = [ call EXCEPT
                  !.pc = "done",
                  !.ioResult = recvResult,
                  !.ret = RecvReturn(call.selectStatus, bytesReceived),
                  !.nLog = logs,
                  !.logErrno = IF logs > 0 THEN newErrno ELSE @ ]
    /\ bcall' = NoCall
    /\ UNCHANGED << socketDescriptor, connected, connFd, prev, assertsOn,
                    rth, sth >>

----------------------------------------------------------------------------
(* Plaintext_Send *)

\* the three assert()s at the head of Plaintext_Send
SendPreconditions(ctx, bufOk, bytesToSend) ==
    ctx = "valid" /\ bufOk /\ bytesToSend > 0

\* the descriptor put into writefds and the nfds argument of zsock_select
SendSelectArgs(fd) == [ fd |-> fd, nfds |-> fd + 1 ]

\* the descriptor handed to zsock_send
SendIoFd(fd) == fd

\* sendTimeout as handed to zsock_select
SendTimeout ==
    [ tv_sec |-> PollBudgetMs \div ONE_SEC_TO_MS,
      tv_usec |-> ONE_MS_TO_US * (PollBudgetMs % ONE_SEC_TO_MS) ]

\* variant: a write is tried a second time within the call
SendWrites_Twice(selectStatus) == IF selectStatus > 0 THEN 2 ELSE 0

\* number of zsock_send calls, given the answer of zsock_select
SendWrites(selectStatus) == IF selectStatus > 0 THEN 1 ELSE 0

\* bytesSent after the three-way branch on selectStatus
SendAfterSelect(selectStatus, sendResult) ==
    IF selectStatus > 0 THEN sendResult
    ELSE IF selectStatus < 0 THEN -1
    ELSE 0

\* variant: a zero-byte write is never escalated
SendPeerClosed_Never(selectStatus, bytesSent) == FALSE

\* the peer-closed test
SendPeerClosed(selectStatus, bytesSent) ==
    (selectStatus > 0) /\ (bytesSent = 0)

\* variant: a poll error is reported as 0, like a timeout
SendReturn_ErrorAsTimeout(selectStatus, bytesSent) ==
    IF SendPeerClosed(selectStatus, bytesSent) THEN -1
    ELSE IF selectStatus < 0 THEN 0
    ELSE bytesSent

\* the value Plaintext_Send returns
SendReturn(selectStatus, bytesSent) ==
    IF SendPeerClosed(selectStatus, bytesSent) THEN -1 ELSE bytesSent

\* variant: only a failed write is logged, a failed poll is not
SendLogs_WriteOnly(selectStatus, bytesSent) ==
    IF selectStatus > 0 /\ bytesSent < 0 THEN 1 ELSE 0

\* number of logTransportError calls made by one Plaintext_Send
SendLogs(selectStatus, bytesSent) ==
    IF SendPeerClosed(selectStatus, bytesSent) THEN 0
    ELSE IF bytesSent < 0 THEN 1
    ELSE 0

\* the call goes on past its assert()s: they hold, or the build dropped them
\* and dereferencing the context does not trap
SendProceeds(ctx, bufOk, n) ==
    IF assertsOn THEN SendPreconditions(ctx, bufOk, n) ELSE ctx = "valid"

\* entry of Plaintext_Send: the assert()s, the timeout, and the read of the
\* descriptor for ZSOCK_FD_SET
Plaintext_Send_Set ==
    /\ ~call.aborted
    /\ ~Running
    /\ \E ctx \in ContextKinds, bufOk \in BOOLEAN, bytesToSend \in 0 .. MaxBytes :
        \* arguments behind the first failing assert are not looked at: fixed
        /\ ctx # "valid" => (bufOk /\ bytesToSend = MaxBytes)
        /\ (assertsOn /\ ~bufOk) => bytesToSend = MaxBytes
        /\ IF ~SendProceeds(ctx, bufOk, bytesToSend)
           THEN \* abort() of a failed assert, or the trap of a NULL dereference
                call' = [ NoCall EXCEPT
                      !.op = "Send", !.ctx = ctx, !.bufOk = bufOk,
                      !.nbytes = bytesToSend, !.aborted = TRUE ]
           ELSE call' = [ NoCall EXCEPT
                      !.op = "Send", !.pc = "set", !.ctx = ctx, !.bufOk = bufOk,
                      !.nbytes = bytesToSend,
                      !.selSet = "write",
                      !.selFd = SendSelectArgs(socketDescriptor).fd,
                      !.tvSec = SendTimeout.tv_sec,
                      !.tvUsec = SendTimeout.tv_usec ]
    /\ prev' = Summary(call)
    /\ UNCHANGED << socketDescriptor, connected, connFd, bcall, assertsOn,
                    rth, sth >>

\* the read of the descriptor for nfds and the call of zsock_select, in
\* which the thread blocks
Plaintext_Send_Poll ==
    /\ call.op = "Send" /\ call.pc = "set"
    /\ call' = [ call EXCEPT
          !.pc = "poll", !.nSelect = 1,
          !.selNfds = SendSelectArgs(socketDescriptor).nfds ]
    /\ UNCHANGED << socketDescriptor, connected, connFd, bcall, prev, assertsOn,
                    rth, sth >>

\* zsock_select answers: the read of the descriptor for zsock_send and the
\* call of zsock_send, in which the thread blocks; or, with nothing ready,
\* the rest of Plaintext_Send through its return
Plaintext_Send_Select ==
    /\ call.op = "Send" /\ call.pc = "poll"
    /\ \E selectStatus \in SelectResults,
          newErrno \in ErrnoValues :  \* errno left by a failing zsock_select
        LET writes == SendWrites(selectStatus)
            bytesSent == SendAfterSelect(selectStatus, 0)
            logs == SendLogs(selectStatus, bytesSent)
        IN  \* inputs that are not consumed are fixed
            /\ (writes > 0 \/ logs = 0) => newErrno = 1
            /\ IF writes > 0
               THEN /\ call' = [ call EXCEPT
                          !.pc = "io",
                          !.selectStatus = selectStatus,
                          !.nSend = writes,
                          !.ioFd = SendIoFd(socketDescriptor),
                          !.ioLen = call.nbytes ]
                    /\ UNCHANGED bcall
               ELSE /\ call' = [ call EXCEPT
                          !.pc = "done",
                          !.selectStatus = selectStatus,
                          !.ret = SendReturn(selectStatus, bytesSent),
                          !.nLog = logs,
                          !.logErrno = IF logs > 0 THEN newErrno ELSE @ ]
                    /\ bcall' = NoCall
    /\ UNCHANGED << socketDescriptor, connected, connFd, prev, assertsOn,
                    rth, sth >>

\* zsock_send answers; the classification, the log and the return
Plaintext_Send_Finish ==
    /\ call.op = "Send" /\ call.pc = "io"
    /\ \E sendResult \in IoResults(MaxBytes),
          newErrno \in ErrnoValues :  \* errno left by a failing zsock_send
        LET bytesSent == SendAfterSelect(call.selectStatus, sendResult)
            logs == SendLogs(call.selectStatus, bytesSent)
        IN  \* zsock_send transfers at most bytesToSend bytes
            /\ sendResult <= call.nbytes
            \* inputs that are not consumed are fixed
            /\ logs = 0 => newErrno = 1
            /\ call' = [ call EXCEPT
                  !.pc = "done",
                  !.ioResult = sendResult,
                  !.ret = SendReturn(call.selectStatus, bytesSent),
                  !.nLog = logs,
                  !.logErrno = IF logs > 0 THEN newErrno ELSE @ ]
    /\ bcall' = NoCall
    /\ UNCHANGED << socketDescriptor, connected, connFd, prev, assertsOn,
                    rth, sth >>

Next ==
    \/ Plaintext_Connect
    \/ Plaintext_Disconnect
    \/ Plaintext_Recv_Set
    \/ Plaintext_Recv_Poll
    \/ Plaintext_Recv_Select
    \/ Plaintext_Recv_Finish
    \/ Plaintext_Send_Set
    \/ Plaintext_Send_Poll
    \/ Plaintext_Send_Select
    \/ Plaintext_Send_Finish

Spec == Init /\ [][Next]_vars

\* the same program built with NDEBUG: the assert()s are compiled out
NdebugInit ==
    /\ assertsOn = FALSE
    /\ bcall = NoCall
    /\ rth = IdleThread
    /\ sth = IdleThread
    /\ socketDescriptor \in HandleValues
    /\ connected = FALSE
    /\ connFd = socketDescriptor
    /\ call = NoCall
    /\ prev = Summary(NoCall)

NdebugSpec == NdebugInit /\ [][Next]_vars

----------------------------------------------------------------------------
(* Properties of the most recent call *)

RecvDone == call.op = "Recv" /\ ~call.aborted /\ call.pc = "done"
SendDone == call.op = "Send" /\ ~call.aborted /\ call.pc = "done"
\* the poll reported ready and the one read / write was made
ReadyAndIo == call.selectStatus > 0 /\ call.nRecv + call.nSend = 1
ParamsRejected ==
    call.op \in {"Connect", "Disconnect"} /\ call.ctx \in {"null", "nullParams"}
\* the calls on record: the caller's, and the one another thread made meanwhile
Calls == {call, bcall}

\* C1 as stated: when the poll reports ready and the read returns 0,
\* Plaintext_Recv returns -1 and a log entry is issued during the call.
C1_PeerClosedLogged ==
    (RecvDone /\ ReadyAndIo /\ call.ioResult = 0)
        => (call.ret = -1 /\ call.nLog >= 1)

\* C1 amended: when the poll reports ready and the read returns 0,
\* Plaintext_Recv returns exactly -1 and issues no log entry.
C1_PeerClosedSilent ==
    (RecvDone /\ ReadyAndIo /\ call.ioResult = 0)
        => (call.ret = -1 /\ call.nLog = 0)

C1_Witness ==
    RecvDone /\ ReadyAndIo /\ call.nRecv = 1 /\ call.ioResult = 0 /\ call.ret = -1

\* C2: when the poll times out, Plaintext_Recv returns exactly 0, attempts no
\* read and issues no log entry.
C2_TimeoutIsZero ==
    (RecvDone /\ call.nSelect = 1 /\ call.selectStatus = 0)
        => (call.ret = 0 /\ call.nRecv = 0 /\ call.nSend = 0 /\ call.nLog = 0)

C2_Witness ==
    RecvDone /\ call.nSelect = 1 /\ call.selectStatus = 0 /\ call.ret = 0

\* C3: the sign of the value returned by Plaintext_Recv / Plaintext_Send is
\* 0 exactly on a poll timeout, positive exactly on ready with a positive
\* read/write, and negative exactly on a poll error, a negative read/write
\* or ready with a zero read/write.
C3_SignClassifies ==
    (RecvDone \/ SendDone) =>
        /\ (call.ret = 0) <=> (call.selectStatus = 0)
        /\ (call.ret > 0) <=> (ReadyAndIo /\ call.ioResult > 0)
        /\ (call.ret < 0) <=> \/ call.selectStatus < 0
                              \/ (ReadyAndIo /\ call.ioResult < 0)
                              \/ (ReadyAndIo /\ call.ioResult = 0)

C3_Witness ==
    SendDone /\ ReadyAndIo /\ call.ioResult = 0 /\ call.ret < 0

\* C4: when the poll reports ready and the read returns N > 0,
\* Plaintext_Recv returns exactly N, short reads included, and does not log.
C4_DataReturned ==
    (RecvDone /\ ReadyAndIo /\ call.ioResult > 0)
        => (call.ret = call.ioResult /\ call.nLog = 0)

C4_Witness ==
    /\ RecvDone /\ ReadyAndIo /\ call.nRecv = 1
    /\ call.ioResult > 0 /\ call.ioResult < call.nbytes
    /\ call.ret = call.ioResult

\* C5: when the poll itself fails, Plaintext_Recv returns -1 and makes no
\* read attempt on the socket.
C5_PollErrorNoRead ==
    (RecvDone /\ call.nSelect = 1 /\ call.selectStatus < 0)
        => (call.ret = -1 /\ call.nRecv = 0 /\ call.nSend = 0)

C5_Witness ==
    RecvDone /\ call.nSelect = 1 /\ call.selectStatus < 0 /\ call.ret = -1

\* C6: when the poll reports ready and the read returns a negative count r,
\* Plaintext_Recv issues exactly one log entry and returns r unchanged.
C6_ReadErrorLogged ==
    (RecvDone /\ ReadyAndIo /\ call.ioResult < 0)
        => (call.nLog = 1 /\ call.ret = call.ioResult)

C6_Witness ==
    RecvDone /\ ReadyAndIo /\ call.ioResult < -1 /\ call.ret = call.ioResult
             /\ call.nLog = 1

\* C7: Plaintext_Send returns, writes and logs exactly as Plaintext_Recv
\* returns, reads and logs for the same poll outcome and I/O outcome, polling
\* the write set instead of the read set.
C7_SendMirrorsRecv ==
    SendDone =>
        LET asRecv == RecvAfterSelect(call.selectStatus, call.ioResult)
        IN  /\ call.ret = RecvReturn(call.selectStatus, asRecv)
            /\ call.nSend = RecvReads(call.selectStatus)
            /\ call.nLog = RecvLogs(call.selectStatus, asRecv)
            /\ call.nRecv = 0
            /\ call.nSelect = 1 /\ call.selSet = "write"
            /\ (ReadyAndIo /\ call.ioResult = 0) => call.ret = -1
            /\ call.selectStatus < 0 => (call.ret = -1 /\ call.nSend = 0)
            /\ call.selectStatus = 0 => (call.ret = 0 /\ call.nSend = 0)

C7_Witness ==
    SendDone /\ call.selectStatus < 0 /\ call.ret = -1 /\ call.nSend = 0
             /\ call.nLog = 1

\* C8 as stated: Plaintext_Connect / Plaintext_Disconnect with a null context
\* or a null parameter block return SOCKETS_INVALID_PARAMETER and call no
\* collaborator at all (socket routines and logging sink alike).
C8_RejectedCallsNothing ==
    \A c \in Calls :
      (c.op \in {"Connect", "Disconnect"} /\ c.ctx \in {"null", "nullParams"}) =>
        /\ c.status = "SOCKETS_INVALID_PARAMETER"
        /\ c.nConnect = 0 /\ c.nClose = 0
        /\ c.nSelect = 0 /\ c.nRecv = 0 /\ c.nSend = 0
        /\ c.nLog = 0

\* C8 amended: such a call returns SOCKETS_INVALID_PARAMETER, calls no socket
\* collaborator and performs no socket I/O; its one collaborator call is the
\* error entry it hands to the logging sink.
C8_RejectedCallsNoSocket ==
    \A c \in Calls :
      (c.op \in {"Connect", "Disconnect"} /\ c.ctx \in {"null", "nullParams"}) =>
        /\ c.status = "SOCKETS_INVALID_PARAMETER"
        /\ c.nConnect = 0 /\ c.nClose = 0
        /\ c.nSelect = 0 /\ c.nRecv = 0 /\ c.nSend = 0
        /\ c.nLog = 1

C8_Witness ==
    /\ call.op = "Connect" /\ call.ctx = "nullParams"
    /\ call.status = "SOCKETS_INVALID_PARAMETER" /\ call.nConnect = 0

\* C9: Plaintext_Connect with a valid context calls Sockets_Connect exactly
\* once, with the handle by reference and the caller's server info and
\* timeouts unchanged, and returns the status that call produced.
C9_ConnectDelegates ==
    \A c \in Calls :
      (c.op = "Connect" /\ c.ctx = "valid") =>
        /\ c.nConnect = 1
        /\ c.fwdHandle
        /\ c.fwdServer = c.argServer
        /\ c.fwdSendMs = c.argSendMs
        /\ c.fwdRecvMs = c.argRecvMs
        /\ c.status = c.collabStatus

C9_Witness ==
    /\ call.op = "Connect" /\ call.ctx = "valid" /\ call.nConnect = 1
    /\ call.argSendMs # call.argRecvMs
    /\ call.status = "SOCKETS_CONNECT_FAILURE"

\* C10: Plaintext_Disconnect with a valid context calls Sockets_Disconnect
\* exactly once, on the descriptor the latest connect stored, and returns its
\* status unchanged, whatever send/receive outcomes came before.
C10_DisconnectDelegates ==
    \A c \in Calls :
      (c.op = "Disconnect" /\ c.ctx = "valid") =>
        /\ c.nClose = 1
        /\ c.closeFd = connFd
        /\ c.status = c.collabStatus

C10_Witness ==
    /\ call.op = "Disconnect" /\ call.ctx = "valid" /\ call.nClose = 1
    /\ call.closeFd = connFd /\ call.closeFd >= 0
    /\ call.status = "SOCKETS_INVALID_PARAMETER"

\* C11 as stated: Plaintext_Recv / Plaintext_Send poll or do I/O only on a
\* Connection whose handle a successful connect set and no disconnect has
\* closed since.
C11_OnlyWhileConnected ==
    ((RecvDone \/ SendDone) /\ call.nSelect + call.nRecv + call.nSend > 0)
        => connected

\* C11 amended: Plaintext_Recv / Plaintext_Send use only descriptors read from
\* the handle field: the set gets the descriptor stored when ZSOCK_FD_SET is
\* reached, nfds is one more than the descriptor stored when zsock_select is
\* called, and the read / write goes to the descriptor stored when zsock_recv
\* / zsock_send is called.  They do so whether or not a successful connect
\* set the handle and no disconnect closed it: the core does not check the
\* connection state.
C11_OnlyStoredHandle ==
    /\ [][ /\ (call.pc = "done" /\ call'.pc = "set")
                  => call'.selFd = socketDescriptor
           /\ (call.pc = "set" /\ call'.pc = "poll")
                  => call'.selNfds = socketDescriptor + 1
           /\ (call.pc = "poll" /\ call'.pc = "io")
                  => call'.ioFd = socketDescriptor
           \* what a call has used stays as it was read
           /\ Running => call'.selFd = call.selFd
           /\ call.pc \in {"poll", "io"} => call'.selNfds = call.selNfds
           /\ call.pc = "io" => call'.ioFd = call.ioFd
         ]_vars
    \* with no call of another thread since the entry, all of them are the
    \* descriptor the handle holds
    /\ []( (Running /\ bcall = NoCall) =>
              /\ call.selFd = socketDescriptor
              /\ call.pc \in {"poll", "io"} => call.selNfds = socketDescriptor + 1
              /\ call.pc = "io" => call.ioFd = socketDescriptor )

C11_Witness ==
    /\ RecvDone /\ ~connected /\ ReadyAndIo
    \* the handle was rebound between the reads and during the read call
    /\ call.selNfds # call.selFd + 1
    /\ call.ioFd # socketDescriptor

\* C12: only a Plaintext_Connect that passed its parameter check writes the
\* handle field: a step that changes the stored descriptor is a Connect with
\* a valid context, made by the caller or, while the caller is inside a
\* Recv / Send, by another thread.  No step of Plaintext_Send or Plaintext_Recv, no
\* Plaintext_Disconnect and no rejected Plaintext_Connect changes it.
C12_HandleWrittenByConnectOnly ==
    [][ socketDescriptor' # socketDescriptor =>
          \/ (~Running /\ call'.op = "Connect" /\ call'.ctx = "valid")
          \/ (Running /\ bcall'.op = "Connect" /\ bcall'.ctx = "valid") ]_vars

C12_Witness ==
    /\ call.op = "Disconnect" /\ call.ctx = "valid" /\ call.nClose = 1
    /\ call.status = "SOCKETS_SUCCESS" /\ ~connected
    /\ socketDescriptor > 0 /\ socketDescriptor = call.closeFd

\* C13: a receive or send that returned 0 on a poll timeout leaves the
\* Connection usable: the handle is untouched and the next call's result is
\* decided by that call's own poll and I/O outcomes alone; a next receive
\* whose poll reports ready and whose read returns N > 0 returns N.
C13_TimeoutLeavesUsable ==
    (prev.outcome = "timeout" /\ (RecvDone \/ SendDone)) =>
        /\ socketDescriptor = connFd
        /\ call.ret = IF call.selectStatus = 0 THEN 0
                      ELSE IF call.selectStatus < 0 THEN -1
                      ELSE IF call.ioResult = 0 THEN -1
                      ELSE call.ioResult
        /\ (RecvDone /\ ReadyAndIo /\ call.ioResult > 0)
               => call.ret = call.ioResult

C13_Witness ==
    /\ prev.outcome = "timeout"
    /\ RecvDone /\ ReadyAndIo /\ call.ioResult > 0
    /\ call.ret = call.ioResult

\* C14: every Plaintext_Recv / Plaintext_Send makes exactly one readiness
\* poll, on the stored descriptor alone, and at most one read/write, made
\* exactly when that poll reported ready; nothing is retried within a call.
C14_OnePollOneIo ==
    /\ (call.op \in {"Recv", "Send"} /\ ~call.aborted) =>
          /\ call.nSelect = (IF call.pc = "set" THEN 0 ELSE 1)
          /\ call.selSet = (IF call.op = "Recv" THEN "read" ELSE "write")
    \* until the poll has answered nothing is read or written
    /\ call.pc \in {"set", "poll"} => call.nRecv + call.nSend = 0
    \* the read / write is entered once, after a poll that reported ready
    /\ call.pc = "io" => (call.nRecv + call.nSend = 1 /\ call.selectStatus > 0)
    /\ (Running /\ bcall = NoCall) => call.selFd = socketDescriptor
    /\ (RecvDone \/ SendDone) =>
          /\ call.nRecv + call.nSend <= 1
          /\ (call.nRecv + call.nSend = 1) <=> (call.selectStatus > 0)
          /\ RecvDone => call.nSend = 0
          /\ SendDone => call.nRecv = 0

C14_Witness ==
    /\ SendDone /\ call.nSelect = 1 /\ call.selectStatus > 0 /\ call.nSend = 1
    /\ call.ioResult > 0 /\ call.ioResult < call.nbytes
    /\ call.ret = call.ioResult

\* C15: the wait budget handed to the readiness poll by Plaintext_Recv and
\* Plaintext_Send is always 0 s + 500000 us, whatever sendTimeoutMs and
\* recvTimeoutMs were given to Plaintext_Connect.
C15_FixedBudget ==
    (call.op \in {"Recv", "Send"} /\ call.nSelect = 1)
        => (call.tvSec = 0 /\ call.tvUsec = 500000)

C15_Witness ==
    /\ RecvDone /\ connected
    /\ prev.zeroRecvMs
    /\ call.tvSec = 0 /\ call.tvUsec = 500000

\* C17: Plaintext_Recv / Plaintext_Send log at most once per call and only
\* in calls that return a negative value; a log entry is issued exactly when
\* the poll failed or the read/write itself returned a negative value.
C17_LogOnlyOnFailure ==
    (RecvDone \/ SendDone) =>
        /\ call.nLog <= 1
        /\ (call.nLog = 1) => (call.ret < 0)
        /\ (call.ret >= 0) => (call.nLog = 0)
        /\ (call.nLog = 1) <=> \/ call.selectStatus < 0
                               \/ (ReadyAndIo /\ call.ioResult < 0)

C17_Witness ==
    /\ RecvDone /\ call.selectStatus < 0 /\ call.nLog = 1
    /\ call.logErrno > 0 /\ call.ret < 0

\* C18: with assertions enabled, Plaintext_Recv / Plaintext_Send called with
\* a null context, a null parameter block, a null buffer or a byte count of
\* 0 fail an assertion before any poll, read or write reaches the socket.
C18_AssertBeforeSocket ==
    ( /\ assertsOn
      /\ call.op \in {"Recv", "Send"}
      /\ (call.ctx # "valid" \/ ~call.bufOk \/ call.nbytes = 0) )
        => /\ call.aborted
           /\ call.nSelect = 0 /\ call.nRecv = 0 /\ call.nSend = 0

C18_Witness ==
    /\ call.op = "Recv" /\ call.ctx = "valid" /\ call.bufOk /\ call.nbytes = 0
    /\ call.aborted /\ call.nSelect = 0

----------------------------------------------------------------------------
(* Plaintext_Recv and Plaintext_Send running in two threads on one          *)
(* Connection, one step per collaborator call.                             *)

InCall(t) == t.pc \in {"set", "poll", "io"}

\* variant: selectStatus lives in storage both functions share
RecvSeenSelect_Shared(own, other) ==
    IF other.pc \in {"io", "done"} THEN other.selectStatus
    ELSE own.selectStatus

\* the selectStatus Plaintext_Recv tests: its own local
RecvSeenSelect(own, other) == own.selectStatus

\* the selectStatus Plaintext_Send tests: its own local
SendSeenSelect(own, other) == own.selectStatus

ConcInit ==
    /\ assertsOn = TRUE
    /\ bcall = NoCall
    /\ socketDescriptor \in FdValues
    /\ connected = TRUE
    /\ connFd = socketDescriptor
    /\ call = NoCall
    /\ prev = Summary(NoCall)
    /\ rth = IdleThread
    /\ sth = IdleThread

\* entry: asserts pass, locals initialised, timeout built, and the read of
\* the descriptor for ZSOCK_FD_SET
ConcRecvBegin ==
    /\ rth.pc \in {"idle", "done"}
    /\ \E bytesToRecv \in {MaxBytes} :
        /\ RecvPreconditions("valid", TRUE, bytesToRecv)
        /\ rth' = [ IdleThread EXCEPT
              !.pc = "set", !.nbytes = bytesToRecv,
              !.pollFd = RecvSelectArgs(socketDescriptor).fd,
              !.tvUsec = RecvTimeout.tv_usec ]
    /\ UNCHANGED << socketDescriptor, connected, connFd, call, bcall, prev,
                    assertsOn, sth >>

\* the read of the descriptor for nfds and the call of zsock_select
ConcRecvPoll ==
    /\ rth.pc = "set"
    /\ rth' = [ rth EXCEPT !.pc = "poll",
                           !.nfds = RecvSelectArgs(socketDescriptor).nfds ]
    /\ UNCHANGED << socketDescriptor, connected, connFd, call, bcall, prev,
                    assertsOn, sth >>

\* zsock_select answers: the three-way branch, with the read of the
\* descriptor and the call of zsock_recv if the poll was ready, else the return
ConcRecvSelect ==
    /\ rth.pc = "poll"
    /\ \E selectStatus \in SelectResults :
        LET own == [ rth EXCEPT !.selectStatus = selectStatus,
                                !.overlap = InCall(sth) ]
            seen == RecvSeenSelect(own, sth)
            reads == RecvReads(seen)
            bytesReceived == RecvAfterSelect(seen, 0)
        IN  IF reads > 0
            THEN rth' = [ own EXCEPT !.pc = "io", !.nIo = reads,
                                     !.ioFd = RecvIoFd(socketDescriptor) ]
            ELSE rth' = [ own EXCEPT !.pc = "done",
                                     !.ret = RecvReturn(seen, bytesReceived),
                                     !.nLog = RecvLogs(seen, bytesReceived) ]
    /\ UNCHANGED << socketDescriptor, connected, connFd, call, bcall, prev,
                    assertsOn, sth >>

\* zsock_recv answers; the peer-closed test, the log and the return
ConcRecvIo ==
    /\ rth.pc = "io"
    /\ \E recvResult \in IoResults(rth.nbytes) :
        LET seen == RecvSeenSelect(rth, sth)
            bytesReceived == RecvAfterSelect(seen, recvResult)
        IN  rth' = [ rth EXCEPT !.pc = "done", !.io = recvResult,
                                !.ret = RecvReturn(seen, bytesReceived),
                                !.nLog = RecvLogs(seen, bytesReceived) ]
    /\ UNCHANGED << socketDescriptor, connected, connFd, call, bcall, prev,
                    assertsOn, sth >>

\* entry: asserts pass, locals initialised, timeout built, and the read of
\* the descriptor for ZSOCK_FD_SET
ConcSendBegin ==
    /\ sth.pc \in {"idle", "done"}
    /\ \E bytesToSend \in {MaxBytes} :
        /\ SendPreconditions("valid", TRUE, bytesToSend)
        /\ sth' = [ IdleThread EXCEPT
              !.pc = "set", !.nbytes = bytesToSend,
              !.pollFd = SendSelectArgs(socketDescriptor).fd,
              !.tvUsec = SendTimeout.tv_usec ]
    /\ UNCHANGED << socketDescriptor, connected, connFd, call, bcall, prev,
                    assertsOn, rth >>

\* the read of the descriptor for nfds and the call of zsock_select
ConcSendPoll ==
    /\ sth.pc = "set"
    /\ sth' = [ sth EXCEPT !.pc = "poll",
                           !.nfds = SendSelectArgs(socketDescriptor).nfds ]
    /\ UNCHANGED << socketDescriptor, connected, connFd, call, bcall, prev,
                    assertsOn, rth >>

\* zsock_select answers: the three-way branch, with the read of the
\* descriptor and the call of zsock_send if the poll was ready, else the return
ConcSendSelect ==
    /\ sth.pc = "poll"
    /\ \E selectStatus \in SelectResults :
        LET own == [ sth EXCEPT !.selectStatus = selectStatus,
                                !.overlap = InCall(rth) ]
            seen == SendSeenSelect(own, rth)
            writes == SendWrites(seen)
            bytesSent == SendAfterSelect(seen, 0)
        IN  IF writes > 0
            THEN sth' = [ own EXCEPT !.pc = "io", !.nIo = writes,
                                     !.ioFd = SendIoFd(socketDescriptor) ]
            ELSE sth' = [ own EXCEPT !.pc = "done",
                                     !.ret = SendReturn(seen, bytesSent),
                                     !.nLog = SendLogs(seen, bytesSent) ]
    /\ UNCHANGED << socketDescriptor, connected, connFd, call, bcall, prev,
                    assertsOn, rth >>

\* zsock_send answers; the peer-closed test, the log and the return
ConcSendIo ==
    /\ sth.pc = "io"
    /\ \E sendResult \in IoResults(sth.nbytes) :
        LET seen == SendSeenSelect(sth, rth)
            bytesSent == SendAfterSelect(seen, sendResult)
        IN  sth' = [ sth EXCEPT !.pc = "done", !.io = sendResult,
                                !.ret = SendReturn(seen, bytesSent),
                                !.nLog = SendLogs(seen, bytesSent) ]
    /\ UNCHANGED << socketDescriptor, connected, connFd, call, bcall, prev,
                    assertsOn, rth >>

\* a third thread completes a valid Plaintext_Connect while a call is
\* running: Sockets_Connect succeeds and stores a descriptor
ConcConnect ==
    /\ InCall(rth) \/ InCall(sth)
    /\ ConnectCalls("valid") = 1
    /\ \E newFd \in FdValues :
        /\ socketDescriptor' = newFd
        /\ connFd' = newFd
    /\ connected' = TRUE
    /\ UNCHANGED << call, bcall, prev, assertsOn, rth, sth >>

\* a third thread completes a valid Plaintext_Disconnect while a call is
\* running: Sockets_Disconnect closes the stored descriptor
ConcDisconnect ==
    /\ InCall(rth) \/ InCall(sth)
    /\ DisconnectCalls("valid") = 1
    /\ connected
    /\ socketDescriptor' = DisconnectStoredFd(socketDescriptor)
    /\ connected' = FALSE
    /\ UNCHANGED << connFd, call, bcall, prev, assertsOn, rth, sth >>

ConcNext ==
    \/ ConcConnect
    \/ ConcDisconnect
    \/ ConcRecvBegin
    \/ ConcRecvPoll
    \/ ConcRecvSelect
    \/ ConcRecvIo
    \/ ConcSendBegin
    \/ ConcSendPoll
    \/ ConcSendSelect
    \/ ConcSendIo

ConcSpec == ConcInit /\ [][ConcNext]_vars

\* C16: under every interleaving of a Plaintext_Recv and a Plaintext_Send on
\* one Connection, each call uses its own set and budget, no step of one
\* call changes the handle or the other call's locals, and each call returns
\* what it returns when run alone with the same poll and I/O outcomes.
C16_NoInterference ==
    /\ [][ /\ rth' # rth => (sth' = sth /\ socketDescriptor' = socketDescriptor)
           /\ sth' # sth => (rth' = rth /\ socketDescriptor' = socketDescriptor)
         ]_vars
    /\ []( /\ socketDescriptor = connFd
           /\ InCall(rth) \/ rth.pc = "done" => rth.tvUsec = 500000
           /\ InCall(sth) \/ sth.pc = "done" => sth.tvUsec = 500000
           /\ rth.pc = "done" =>
                 /\ rth.nIo = RecvReads(rth.selectStatus)
                 /\ rth.ret = RecvReturn(rth.selectStatus,
                                  RecvAfterSelect(rth.selectStatus, rth.io))
           /\ sth.pc = "done" =>
                 /\ sth.nIo = SendWrites(sth.selectStatus)
                 /\ sth.ret = SendReturn(sth.selectStatus,
                                  SendAfterSelect(sth.selectStatus, sth.io)) )

C16_Witness ==
    /\ rth.pc = "done" /\ sth.pc = "done"
    /\ rth.overlap /\ sth.overlap
    /\ rth.selectStatus > 0 /\ rth.ret > 0
    /\ sth.selectStatus = 0 /\ sth.ret = 0
    \* the handle was rebound between the receive's poll and its read
    /\ rth.ioFd # rth.pollFd

====
